---- MODULE Spec2Model ----
(***************************************************************************)
(* Model of the HubSpot MCP server (server.js).                            *)
(*                                                                         *)
(* Two parts:                                                              *)
(*   - the session router: GET /sse, the response "close" listener and     *)
(*     POST /messages over the process-wide `transports` object and the    *)
(*     single `server` (McpServer) instance               (Spec);          *)
(*   - the tool invoker: hsPOST / hsGET / chunk / asText and the eleven    *)
(*     registered tool handlers                           (ToolSpec).      *)
(*                                                                         *)
(* Library behaviour the code relies on (noted where it is used):          *)
(*   - new SSEServerTransport(...) gives the transport a sessionId from    *)
(*     randomUUID(): a value not produced before;                          *)
(*   - server.connect(transport) stores the transport as THE transport of  *)
(*     the server (one slot), wires transport.onmessage / onclose and      *)
(*     calls transport.start(); it may reject;                             *)
(*   - a request is answered on the transport held in that slot when the   *)
(*     request arrived; closing a connected transport empties the slot.    *)
(***************************************************************************)
EXTENDS Integers, Sequences, FiniteSets, TLC

VARIABLES
    \* ---- session router ----
    transports,       \* const transports = {}  : own keys -> transport
    sessionId,        \* transport -> its sessionId (set by the constructor)
    connState,        \* transport -> "connected" | "failed" | "closed"
    issued,           \* UUIDs randomUUID() has produced so far
    serverTransport,  \* the single transport slot of `server`
    inflight,         \* requests whose tool handler is awaiting
    outbound,         \* transport -> what was written on its SSE stream
    posts,            \* number of POST /messages handled so far
    lastPost,         \* outcome of the latest POST /messages
    lastClose,        \* registry before/after the latest close listener
    \* ---- tool invoker ----
    tool,             \* the tool being invoked
    ids,              \* its `ids` argument (batch tools)
    pc,               \* "idle" | "run" | "done"
    part,             \* index of the next group of the batch loop
    all,              \* const all = []
    calls,            \* remote calls issued: <<ids carried, response>>
    result            \* what the handler returned (or that it threw)

routerVars == <<transports, sessionId, connState, issued, serverTransport,
                inflight, outbound, posts, lastPost, lastClose>>
toolVars   == <<tool, ids, pc, part, all, calls, result>>
vars       == <<transports, sessionId, connState, issued, serverTransport,
                inflight, outbound, posts, lastPost, lastClose,
                tool, ids, pc, part, all, calls, result>>

(***************************************************************************)
(* Bounds                                                                  *)
(***************************************************************************)
MaxConns == 2     \* GET /sse requests in one run
MaxPosts == 2     \* POST /messages requests in one run
MaxIds   == 181   \* longest `ids` argument

None == [kind |-> "none", n |-> 0]

(***************************************************************************)
(* Session router                                                          *)
(***************************************************************************)
Conns == 1..MaxConns

\* Values of req.query.sessionId: a UUID, absent (undefined), a string that
\* names a member of Object.prototype, any other string.
Uuid(n)  == [kind |-> "uuid", n |-> n]
Uuids    == {Uuid(n) : n \in 1..MaxConns}
Absent   == [kind |-> "undefined", n |-> 0]
ProtoKey == [kind |-> "constructor", n |-> 0]
OtherKey == [kind |-> "other", n |-> 0]
Keys     == Uuids \cup {Absent, ProtoKey, OtherKey}

\* What a property read finds.
Own(t)    == [kind |-> "transport", n |-> t]
Inherited == [kind |-> "inherited", n |-> 0]

\* Mutant of Lookup: the key is ignored and some registered transport is used.
LookupIgnoringKey(reg, key) ==
    IF DOMAIN reg # {} THEN Own(reg[CHOOSE k \in DOMAIN reg : TRUE]) ELSE None

\* `const transports = {}`: an object literal; its prototype is
\* Object.prototype, so a read of a key that is not an own property finds
\* the inherited member when there is one.
Lookup(reg, key) ==
    IF key \in DOMAIN reg THEN Own(reg[key])
    ELSE IF key = ProtoKey THEN Inherited
    ELSE None

\* transports[key] = t
Put(reg, key, t) == [k \in (DOMAIN reg) \cup {key} |-> IF k = key THEN t ELSE reg[k]]

\* Mutant of Delete: the entry is left in place.
DeleteNothing(reg, key) == reg

\* Mutant of Delete: the whole registry is emptied.
DeleteAll(reg, key) == << >>

\* delete transports[key]
Delete(reg, key) == [k \in (DOMAIN reg) \ {key} |-> reg[k]]

\* Mutant of FreshIds: an identifier may be handed out again.
AnyIds(used) == Uuids

\* randomUUID() in the SSEServerTransport constructor.
FreshIds(used) == Uuids \ used

Created == DOMAIN sessionId
Open(t) == t \in Created /\ connState[t] # "closed"

NoPost  == [key |-> None, wasOpen |-> FALSE, status |-> "none", handledBy |-> 0]
NoClose == [conn |-> 0, before |-> << >>, after |-> << >>]

RouterInit ==
    /\ transports = << >>
    /\ sessionId = << >>
    /\ connState = << >>
    /\ issued = {}
    /\ serverTransport = 0
    /\ inflight = {}
    /\ outbound = << >>
    /\ posts = 0
    /\ lastPost = NoPost
    /\ lastClose = NoClose

ToolIdle ==
    /\ tool = "none"
    /\ ids = << >>
    /\ pc = "idle"
    /\ part = 0
    /\ all = << >>
    /\ calls = << >>
    /\ result = [kind |-> "none"]

Init == RouterInit /\ ToolIdle

\* app.get("/sse"): runs to the end of server.connect without yielding.
\* `ok` is whether server.connect(transport) resolved.
OpenSse(ok) ==
    /\ Cardinality(Created) < MaxConns
    /\ LET t == Cardinality(Created) + 1 IN
       \E id \in FreshIds(issued) :
          /\ sessionId' = Put(sessionId, t, id)
          /\ issued' = issued \cup {id}
          /\ transports' = Put(transports, id, t)
          /\ outbound' = Put(outbound, t, << >>)
          /\ IF ok
               THEN /\ connState' = Put(connState, t, "connected")
                    /\ serverTransport' = t
               ELSE /\ connState' = Put(connState, t, "failed")
                    /\ UNCHANGED serverTransport
    /\ UNCHANGED <<inflight, posts, lastPost, lastClose>>
    /\ UNCHANGED toolVars

\* res.on("close", ...) of transport t: the stream closed.
CloseSse(t) ==
    /\ Open(t)
    /\ transports' = Delete(transports, sessionId[t])
    /\ lastClose' = [conn |-> t, before |-> transports,
                     after |-> Delete(transports, sessionId[t])]
    /\ serverTransport' = IF connState[t] = "connected" THEN 0 ELSE serverTransport
    /\ connState' = [connState EXCEPT ![t] = "closed"]
    /\ UNCHANGED <<sessionId, issued, inflight, outbound, posts, lastPost>>
    /\ UNCHANGED toolVars

IsOpenSession(key) == \E t \in Created : Open(t) /\ sessionId[t] = key

\* app.post("/messages") with req.query.sessionId = key.
PostMessages(key) ==
    /\ posts < MaxPosts
    /\ posts' = posts + 1
    /\ LET transport == Lookup(transports, key) IN
       CASE transport = None ->
              \* res.status(400).send(...)
              /\ lastPost' = [key |-> key, wasOpen |-> IsOpenSession(key),
                              status |-> "400", handledBy |-> 0]
              /\ UNCHANGED inflight
         [] transport = Inherited ->
              \* transport.handlePostMessage is not a function
              /\ lastPost' = [key |-> key, wasOpen |-> IsOpenSession(key),
                              status |-> "fault", handledBy |-> 0]
              /\ UNCHANGED inflight
         [] OTHER ->
              LET t == transport.n IN
              IF connState[t] = "connected"
                THEN /\ lastPost' = [key |-> key, wasOpen |-> IsOpenSession(key),
                                     status |-> "202", handledBy |-> t]
                     /\ inflight' = inflight \cup
                            {[msg |-> posts + 1, origin |-> t, via |-> serverTransport]}
                ELSE \* transport never started: "SSE connection not established"
                     /\ lastPost' = [key |-> key, wasOpen |-> IsOpenSession(key),
                                     status |-> "500", handledBy |-> t]
                     /\ UNCHANGED inflight
    /\ UNCHANGED <<transports, sessionId, connState, issued, serverTransport,
                   outbound, lastClose>>
    /\ UNCHANGED toolVars

\* The tool handler of request r returned; its response is sent on the
\* transport captured when the request arrived (dropped when there is none
\* or its stream is gone).
Respond(r) ==
    /\ r \in inflight
    /\ inflight' = inflight \ {r}
    /\ outbound' = IF r.via # 0 /\ connState[r.via] = "connected"
                     THEN [outbound EXCEPT ![r.via] =
                              Append(@, [msg |-> r.msg, origin |-> r.origin])]
                     ELSE outbound
    /\ UNCHANGED <<transports, sessionId, connState, issued, serverTransport,
                   posts, lastPost, lastClose>>
    /\ UNCHANGED toolVars

Next ==
    \/ \E ok \in BOOLEAN : OpenSse(ok)
    \/ \E t \in Conns : CloseSse(t)
    \/ \E key \in Keys : PostMessages(key)
    \/ \E r \in inflight : Respond(r)

Spec == Init /\ [][Next]_vars

(***************************************************************************)
(* Tool invoker                                                            *)
(***************************************************************************)
ChunkSize == 90   \* function chunk(arr, size = 90)

SearchTools == {"hubspot_contacts_search", "hubspot_companies_search",
                "hubspot_deals_search", "hubspot_recently_modified",
                "hubspot_search_advanced"}
GetTools    == {"hubspot_owners_list", "hubspot_properties",
                "hubspot_pipelines", "hubspot_paginate"}
BatchRead   == "hubspot_batch_read"
AssocBatch  == "hubspot_associations_batch"
IdTools     == {BatchRead, AssocBatch}
Tools       == SearchTools \cup GetTools \cup IdTools

\* Labels the handlers pass to asText.
Label(t) ==
    CASE t = "hubspot_contacts_search"   -> "contacts"
      [] t = "hubspot_companies_search"  -> "companies"
      [] t = "hubspot_deals_search"      -> "deals"
      [] t = "hubspot_recently_modified" -> "recently_modified"
      [] t = "hubspot_search_advanced"   -> "advanced_search"
      [] t = "hubspot_owners_list"       -> "owners"
      [] t = "hubspot_properties"        -> "properties"
      [] t = "hubspot_pipelines"         -> "pipelines"
      [] t = "hubspot_paginate"          -> "paginate"
      [] t = BatchRead                   -> "batch_read"
      [] t = AssocBatch                  -> "associations"

ErrorLabel(t) ==
    CASE t = "hubspot_contacts_search"   -> "contacts_error"
      [] t = "hubspot_companies_search"  -> "companies_error"
      [] t = "hubspot_deals_search"      -> "deals_error"
      [] t = "hubspot_recently_modified" -> "recently_modified_error"
      [] t = "hubspot_search_advanced"   -> "advanced_search_error"
      [] t = "hubspot_owners_list"       -> "owners_error"
      [] t = "hubspot_properties"        -> "properties_error"
      [] t = "hubspot_pipelines"         -> "pipelines_error"
      [] t = "hubspot_paginate"          -> "paginate_error"
      [] t = BatchRead                   -> "batch_read_error"
      [] t = AssocBatch                  -> "associations_error"

\* ---- the remote API (environment) ----
\* A response: status 0 stands for fetch() rejecting (no response at all);
\* text is the body.  Bodies: a JSON object with every matched object in
\* `results`, one with only the objects found, one with no `results`
\* member, a body that is not JSON, an error body.
JsonBodies == {"{results:all}", "{results:found}", "{}"}
Bodies     == JsonBodies \cup {"<html>", "error-body"}
Responses  == [status : {0, 200, 404, 500}, text : Bodies]
NoResp     == [status |-> -1, text |-> ""]

ResOk(resp) == resp.status >= 200 /\ resp.status <= 299

Found(id) == id % 3 # 0
\* Objects a search matches when the request carries no ids.
SearchHits == <<1, 2, 3>>

\* ---- values, exceptions, strings ----
\* A string built by a template literal is the sequence of its pieces.
Return(v) == [kind |-> "return", value |-> v]
Throw(name, message) == [kind |-> "throw", name |-> name, message |-> message]
\* String(e) of an Error: "<name>: <message>"
StringOfError(e) == <<e.name \o ":">> \o e.message
Contains(str, piece) == \E i \in 1..Len(str) : str[i] = piece

\* JSON.parse(text); `matched` is what the remote matched for this request.
JSONparse(text, matched) ==
    CASE text = "{results:all}" ->
            Return([kind |-> "object", hasResults |-> TRUE, results |-> matched])
      [] text = "{results:found}" ->
            Return([kind |-> "object", hasResults |-> TRUE,
                    results |-> SelectSeq(matched, Found)])
      [] text = "{}" ->
            Return([kind |-> "object", hasResults |-> FALSE, results |-> << >>])
      [] OTHER -> Throw("SyntaxError", <<"Unexpected", "token">>)

FetchError == Throw("FetchError", <<"request", "failed">>)

\* async function hsPOST(path, body), from the response on.
hsPOST(resp, matched) ==
    IF resp.status = 0 THEN FetchError
    ELSE IF ~ResOk(resp)
      THEN Throw("Error", <<"HubSpot", ToString(resp.status), resp.text>>)
    ELSE LET parsed == JSONparse(resp.text, matched) IN
         IF parsed.kind = "throw"
           THEN Return([kind |-> "string", text |-> resp.text])
           ELSE parsed

\* async function hsGET(path, query), from the response on.
hsGET(resp, matched) ==
    IF resp.status = 0 THEN FetchError
    ELSE IF ~ResOk(resp)
      THEN Throw("Error", <<"HubSpot", ToString(resp.status), resp.text>>)
    ELSE LET parsed == JSONparse(resp.text, matched) IN
         IF parsed.kind = "throw"
           THEN Return([kind |-> "string", text |-> resp.text])
           ELSE parsed

Min(a, b) == IF a <= b THEN a ELSE b

\* arr.slice(from, to), 0-based, `to` clamped to the length.
Slice(arr, from, to) == SubSeq(arr, from + 1, Min(to, Len(arr)))

RECURSIVE chunkFrom(_, _, _)
chunkFrom(arr, size, i) ==
    IF i < Len(arr)
      THEN <<Slice(arr, i, i + size)>> \o chunkFrom(arr, size, i + size)
      ELSE << >>

\* Mutant of chunk: consecutive groups overlap by one element.
chunkOverlapping(arr, size) ==
    [k \in 1..Len(chunkFrom(arr, size, 0)) |->
        Slice(arr, IF k = 1 THEN 0 ELSE (k - 1) * size - 1, k * size)]

\* function chunk(arr, size = 90)
chunk(arr, size) == chunkFrom(arr, size, 0)

\* function asText(obj, label): the text is JSON.stringify({label, data: obj}).
asText(obj, label) ==
    [content |-> <<[type |-> "text",
                    text |-> [json |-> [label |-> label, data |-> obj]]]>>]

\* The envelope inside what a handler returned.
Envelope(r) == r.content[1].text.json.data

\* { ok: true, count: data?.results?.length ?? 0, results: data?.results ?? [],
\*   paging: data?.paging ?? null }
SearchEnvelope(data) ==
    IF data.kind = "object" /\ data.hasResults
      THEN [ok |-> TRUE, count |-> Len(data.results), results |-> data.results]
      ELSE [ok |-> TRUE, count |-> 0, results |-> << >>]

\* { ok: true, ...data }: an object's members are copied, a string spreads
\* into its characters.
SpreadEnvelope(data) ==
    IF data.kind = "object"
      THEN IF data.hasResults
             THEN [ok |-> TRUE, results |-> data.results]
             ELSE [ok |-> TRUE]
      ELSE [ok |-> TRUE, chars |-> data.text]

\* Mutant of Catch: the exception leaves the handler.
Rethrow(t, outcome) ==
    IF outcome.kind = "throw"
      THEN [kind |-> "threw", error |-> StringOfError(outcome)]
      ELSE [kind |-> "returned", value |-> outcome.value]

\* try { ... return asText(...) } catch (e) { return asText({ok: false,
\* error: String(e)}, "<tool>_error") } of every tool handler.
Catch(t, outcome) ==
    IF outcome.kind = "throw"
      THEN [kind |-> "returned",
            value |-> asText([ok |-> FALSE, error |-> StringOfError(outcome)],
                             ErrorLabel(t))]
      ELSE [kind |-> "returned", value |-> outcome.value]

\* The try block of the single-call handlers, from the response on.
TryBody(t, resp, sent) ==
    IF t \in SearchTools THEN
        LET o == hsPOST(resp, SearchHits) IN
        IF o.kind = "throw" THEN o
        ELSE Return(asText(SearchEnvelope(o.value), Label(t)))
    ELSE IF t \in GetTools THEN
        LET o == hsGET(resp, SearchHits) IN
        IF o.kind = "throw" THEN o
        ELSE Return(asText(SpreadEnvelope(o.value), Label(t)))
    ELSE \* hubspot_associations_batch
        IF resp.status = 0 THEN FetchError
        ELSE IF ~ResOk(resp)
          THEN Throw("Error", <<"HubSpot", "associations", "from->to",
                                ToString(resp.status), resp.text>>)
        ELSE LET parsed == JSONparse(resp.text, sent) IN
             IF parsed.kind = "throw" THEN parsed
             ELSE Return(asText(SpreadEnvelope(parsed.value), Label(t)))

\* One turn of the loop of hubspot_batch_read, from the response on: what is
\* pushed onto `all`, or the exception.
BatchTurn(resp, sent) ==
    IF resp.status = 0 THEN FetchError
    ELSE IF ~ResOk(resp)
      THEN Throw("Error", <<"HubSpot", "batch", "object",
                            ToString(resp.status), resp.text>>)
    ELSE LET parsed == JSONparse(resp.text, sent) IN
         IF parsed.kind = "throw" THEN parsed
         ELSE Return(IF parsed.value.hasResults THEN parsed.value.results ELSE << >>)

\* The `ids` arguments tried: 1..n, or a list with repeated identifiers.
IdList(n, repeats) == [i \in 1..n |-> IF repeats THEN ((i - 1) % 7) + 1 ELSE i]

ToolInit ==
    /\ RouterInit
    /\ tool \in Tools
    /\ \E n \in 0..MaxIds, repeats \in BOOLEAN :
          ids = IF tool \in IdTools THEN IdList(n, repeats) ELSE << >>
    /\ pc = "ready"
    /\ part = 0
    /\ all = << >>
    /\ calls = << >>
    /\ result = [kind |-> "none"]

\* The handler runs up to its first await: the first remote call is
\* issued, or (batch read of no ids) the handler returns at once.
Invoke ==
    /\ pc = "ready"
    /\ IF tool = BatchRead
         THEN LET parts == chunk(ids, ChunkSize) IN
              IF Len(parts) = 0
                THEN /\ result' = Catch(tool, Return(asText(
                                      [ok |-> TRUE, results |-> all], Label(tool))))
                     /\ pc' = "done"
                     /\ UNCHANGED <<calls, part>>
                ELSE /\ calls' = <<[ids |-> parts[1], resp |-> NoResp]>>
                     /\ part' = 1
                     /\ pc' = "await"
                     /\ UNCHANGED result
         ELSE /\ calls' = <<[ids |-> ids, resp |-> NoResp]>>
              /\ pc' = "await"
              /\ UNCHANGED <<result, part>>
    /\ UNCHANGED <<tool, ids, all>>
    /\ UNCHANGED routerVars

\* The awaited remote call completes with resp and the handler runs on to
\* its next await or to its return.
RemoteResponse(resp) ==
    /\ pc = "await"
    /\ LET n    == Len(calls)
           sent == calls[n].ids
           logged == [calls EXCEPT ![n].resp = resp]
       IN
       IF tool = BatchRead
         THEN LET turn  == BatchTurn(resp, sent)
                  parts == chunk(ids, ChunkSize) IN
              IF turn.kind = "throw"
                THEN /\ result' = Catch(tool, turn)
                     /\ pc' = "done"
                     /\ calls' = logged
                     /\ UNCHANGED <<all, part>>
              ELSE IF part < Len(parts)
                THEN /\ all' = all \o turn.value
                     /\ part' = part + 1
                     /\ calls' = Append(logged,
                                   [ids |-> parts[part + 1], resp |-> NoResp])
                     /\ UNCHANGED <<pc, result>>
                ELSE /\ all' = all \o turn.value
                     /\ result' = Catch(tool, Return(asText(
                                     [ok |-> TRUE, results |-> all \o turn.value],
                                     Label(tool))))
                     /\ pc' = "done"
                     /\ calls' = logged
                     /\ UNCHANGED part
         ELSE /\ result' = Catch(tool, TryBody(tool, resp, sent))
              /\ pc' = "done"
              /\ calls' = logged
              /\ UNCHANGED <<all, part>>
    /\ UNCHANGED <<tool, ids>>
    /\ UNCHANGED routerVars

ToolNext ==
    \/ Invoke
    \/ \E resp \in Responses : RemoteResponse(resp)

ToolSpec == ToolInit /\ [][ToolNext]_vars

(***************************************************************************)
(* Claims about the session router (checked under Spec)                    *)
(***************************************************************************)
Posted == lastPost.status # "none"
Closed(t) == t \in Created /\ connState[t] = "closed"

\* C1: a message POSTed with the identifier of a session whose stream is
\* still open is handed to the transport registered for that identifier (the
\* one whose sessionId it is) and to no other session's transport.
C1_RoutedToOwnTransport ==
    (Posted /\ lastPost.wasOpen) =>
        /\ lastPost.handledBy \in Created
        /\ sessionId[lastPost.handledBy] = lastPost.key
        /\ \A t \in Created : sessionId[t] # lastPost.key => t # lastPost.handledBy

\* C1 witness: with two sessions created, a POST to an open one was accepted.
C1_Witness ==
    /\ Cardinality(Created) >= 2
    /\ Posted /\ lastPost.wasOpen /\ lastPost.status = "202"
    /\ sessionId[lastPost.handledBy] = lastPost.key

\* C2 (as claimed): a POST whose sessionId is not the identifier of a
\* currently open session is answered with HTTP 400 and no transport handler
\* is invoked.
C2_Original ==
    (Posted /\ ~lastPost.wasOpen) =>
        (lastPost.status = "400" /\ lastPost.handledBy = 0)

\* C3: once a session's stream has closed its identifier is not in the
\* registry, a later POST with that identifier is rejected with 400 and
\* reaches no transport, and deleting an identifier that is not in the
\* registry (a repeated close, an unknown identifier) changes nothing.
C3_ClosedStaysRejected ==
    /\ \A t \in Created : Closed(t) => sessionId[t] \notin DOMAIN transports
    /\ (Posted /\ lastPost.key \in issued /\ ~lastPost.wasOpen) =>
           (lastPost.status = "400" /\ lastPost.handledBy = 0)
    /\ lastClose.conn # 0 =>
           /\ sessionId[lastClose.conn] \notin DOMAIN lastClose.after
           /\ Delete(lastClose.after, sessionId[lastClose.conn]) = lastClose.after
    /\ \A k \in Keys \ DOMAIN transports : Delete(transports, k) = transports

\* C3 witness: a session was closed and a later POST with its identifier was
\* rejected.
C3_Witness ==
    /\ Posted /\ lastPost.key \in issued /\ ~lastPost.wasOpen
    /\ lastPost.status = "400"
    /\ \E t \in Created : Closed(t) /\ sessionId[t] = lastPost.key
    /\ lastClose.conn # 0

\* C4 (as claimed): every response written on a session's outbound stream
\* answers a message that was dispatched to that same session.
C4_Original ==
    \A t \in DOMAIN outbound :
        \A i \in 1..Len(outbound[t]) : outbound[t][i].origin = t

\* C5 (as claimed): when server.connect failed in GET /sse, the registry
\* holds no entry for that stream's identifier.
C5_Original ==
    \A t \in Created :
        connState[t] = "failed" => sessionId[t] \notin DOMAIN transports

\* C6: the registry holds at most one session per identifier, no identifier
\* is given to two sessions (so never to a later one after a close), and the
\* entry of a session whose stream is open is its own: no other session's
\* close listener removed or replaced it.
C6_UniqueIdentifiers ==
    /\ \A t1, t2 \in Created : t1 # t2 => sessionId[t1] # sessionId[t2]
    /\ \A k \in DOMAIN transports : sessionId[transports[k]] = k
    /\ \A t \in Created :
          Open(t) => /\ sessionId[t] \in DOMAIN transports
                     /\ transports[sessionId[t]] = t

\* C6 witness: a session was closed, a later one is open and registered.
C6_Witness ==
    \E t1, t2 \in Created :
        /\ t1 < t2 /\ Closed(t1) /\ Open(t2)
        /\ lastClose.conn = t1
        /\ transports[sessionId[t2]] = t2

(***************************************************************************)
(* Claims about the tool invoker (checked under ToolSpec)                  *)
(***************************************************************************)
CeilDiv(n, d) == (n + d - 1) \div d

\* ids[90(k-1)+1 .. min(90k, N)]: the k-th contiguous run of at most 90.
Run(k) ==
    [j \in 1..Min(90, Len(ids) - 90 * (k - 1)) |-> ids[90 * (k - 1) + j]]

\* What the remote returned in `results` for a call.
ResultsOf(call) ==
    LET parsed == JSONparse(call.resp.text, call.ids) IN
    IF parsed.kind = "return" /\ parsed.value.hasResults
      THEN parsed.value.results ELSE << >>

RECURSIVE ConcatResults(_, _)
ConcatResults(cs, k) ==
    IF k = 0 THEN << >> ELSE ConcatResults(cs, k - 1) \o ResultsOf(cs[k])

Done     == pc = "done"
Returned == Done /\ result.kind = "returned"
Non2xx(resp) == resp.status > 0 /\ ~ResOk(resp)
Succeeded(resp) == ResOk(resp) /\ resp.text \in JsonBodies

\* C7 (as claimed): for every ids list of length N given to batch read,
\* exactly ceil(N/90) remote calls are issued, call k carries the k-th
\* contiguous run of 90 (the last one possibly shorter), and the result list
\* is the concatenation of the calls' results in call order.
C7_Original ==
    (tool = BatchRead /\ Done) =>
        /\ Len(calls) = CeilDiv(Len(ids), 90)
        /\ \A k \in 1..Len(calls) : calls[k].ids = Run(k)
        /\ \A k \in 1..(Len(calls) - 1) : Len(calls[k].ids) = 90
        /\ (Returned /\ Envelope(result.value).ok) =>
               Envelope(result.value).results = ConcatResults(calls, Len(calls))

\* C7 (amended): calls are issued group by group, call k carrying the k-th
\* contiguous run of 90 (the last possibly shorter); when every call
\* succeeds exactly ceil(N/90) are issued (none for N = 0) and the result
\* list is the concatenation of their results in call order; a call that
\* fails is the last one issued and the invocation returns a failure.
C7_GroupsInOrder ==
    tool = BatchRead =>
        /\ Len(calls) <= CeilDiv(Len(ids), 90)
        /\ \A k \in 1..Len(calls) :
              /\ calls[k].ids = Run(k)
              /\ Len(calls[k].ids) >= 1
              /\ k < CeilDiv(Len(ids), 90) => Len(calls[k].ids) = 90
        /\ \A k \in 1..(Len(calls) - 1) : Succeeded(calls[k].resp)
        /\ (Done /\ \A k \in 1..Len(calls) : Succeeded(calls[k].resp)) =>
              /\ Len(calls) = CeilDiv(Len(ids), 90)
              /\ Returned /\ Envelope(result.value).ok
              /\ Envelope(result.value).results = ConcatResults(calls, Len(calls))
        /\ (Done /\ \E k \in 1..Len(calls) : ~Succeeded(calls[k].resp)) =>
              /\ Returned /\ ~Envelope(result.value).ok

\* C7 witness: 181 ids were read in three calls of 90, 90 and 1 ids.
C7_Witness ==
    /\ tool = BatchRead /\ Returned /\ Envelope(result.value).ok
    /\ Len(ids) = 181 /\ Len(calls) = 3
    /\ Len(calls[1].ids) = 90 /\ Len(calls[2].ids) = 90 /\ Len(calls[3].ids) = 1
    /\ Len(Envelope(result.value).results) > 90

\* C8 (as claimed): the association batch tool never sends more than 90
\* identifiers in one remote call.
C8_Original ==
    tool = AssocBatch => \A k \in 1..Len(calls) : Len(calls[k].ids) <= 90

\* C9: for every tool, when a remote call is answered with a non-2xx status
\* the handler returns (it does not throw) exactly one envelope
\* {ok: false, error}, whose error text contains the status code and the
\* body and which carries no results.
C9_FailureEnvelope ==
    /\ result.kind # "threw"
    /\ \A k \in 1..Len(calls) :
          (Done /\ Non2xx(calls[k].resp)) =>
              /\ Returned
              /\ Len(result.value.content) = 1
              /\ DOMAIN Envelope(result.value) = {"ok", "error"}
              /\ Envelope(result.value).ok = FALSE
              /\ Contains(Envelope(result.value).error, ToString(calls[k].resp.status))
              /\ Contains(Envelope(result.value).error, calls[k].resp.text)

\* C9 witness: a batch read whose first group succeeded with results and
\* whose second group was answered 404 returned the failure envelope.
C9_Witness ==
    /\ tool = BatchRead /\ Returned
    /\ Len(calls) = 2 /\ Len(all) > 0
    /\ calls[2].resp.status = 404
    /\ Envelope(result.value).ok = FALSE
    /\ Contains(Envelope(result.value).error, "404")

\* C10 (as claimed): for every tool, a response with a success status whose
\* body is not JSON yields a failure envelope, never a success envelope.
C10_Original ==
    \A k \in 1..Len(calls) :
        (Done /\ ResOk(calls[k].resp) /\ calls[k].resp.text \notin JsonBodies) =>
            (Returned /\ Envelope(result.value).ok = FALSE)

(***************************************************************************)
(* Further claims about the session router (checked under Spec)            *)
(***************************************************************************)
\* C11 (as claimed): of two messages dispatched to the same session, the
\* result of the one delivered first is written to a stream before the
\* result of the one delivered later.
C11_Original ==
    \A t \in DOMAIN outbound :
        \A i, j \in 1..Len(outbound[t]) :
            (i < j /\ outbound[t][i].origin = outbound[t][j].origin) =>
                outbound[t][i].msg < outbound[t][j].msg

====
